---- MODULE Spec2Model ----
(***************************************************************************)
(* Model of the Knotting file converter:                                   *)
(*   src/src/utils/aiAnalysis.ts     heuristic text analysis               *)
(*   src/src/utils/fileConverter.ts  format dispatch and extraction        *)
(*   src/unnamed/part_000            the FileConverter React component     *)
(* Texts are sequences of one-character strings; file names and MIME types *)
(* are strings.                                                            *)
(***************************************************************************)
EXTENDS Integers, Sequences, FiniteSets, TLC

VARIABLES
    text,               \* argument of analyzeTextWithAI (analysis runs)
    analysis,           \* value analyzeTextWithAI resolved with, or NoAnalysis
    file,               \* argument of convertFileToText (conversion runs)
    conversion,         \* outcome of convertFileToText, or NoConversion
    convertedFiles,     \* useState<ConvertedFile[]>
    error,              \* useState<string | null>: Null or [message |-> text]
    isConverting,       \* useState(false)
    conversionProgress, \* useState(0), kept as the fraction num/den
    selectedFile,       \* useState<ConvertedFile | null>
    processingFolder,   \* useState(false)
    batch,              \* the processFiles invocation in flight, or NoBatch
    pending,            \* the analyzeWithAI invocations in flight, oldest first,
                        \* each the id and the textContent of the file it was
                        \* called with, and the time of the call
    now,                \* Date.now()
    log,                \* events since the latest processFiles invocation began: its
                        \* progress updates and extractions, and the clears
    analysisRuns,       \* the calls of analyzeTextWithAI that analyzeWithAI has seen
                        \* resolve, each as [text, result]
    archive,            \* the JSZip object downloadAllAsZip filled, or NoArchive
    byteCount,          \* argument of formatFileSize, as its base-1024 digits
                        \* (formatting runs)
    sizeText            \* value formatFileSize returned, or NoSizeText

vars == <<text, analysis, file, conversion, convertedFiles, error, isConverting,
          conversionProgress, selectedFile, processingFolder, batch, pending,
          now, log, analysisRuns, archive, byteCount, sizeText>>

textVars == <<text, analysis>>
fileVars == <<file, conversion>>
toolVars == <<archive, byteCount, sizeText>>
uiVars == <<convertedFiles, error, isConverting, conversionProgress,
            selectedFile, processingFolder, batch, pending, now, log, analysisRuns>>

(***************************************************************************)
(* Values shared by the specifications                                     *)
(***************************************************************************)
NoAnalysis == [none |-> "analysis"]
NoFile == [none |-> "file"]
NoConversion == [none |-> "conversion"]
NoBatch == [none |-> "batch"]
Null == [none |-> "null"]
Undefined == [none |-> "undefined"]
NoArchive == [none |-> "archive"]
NoSizeText == [none |-> "size"]

\* no archive made and no size formatted
NoTools ==
    /\ archive = NoArchive
    /\ byteCount = <<>>
    /\ sizeText = NoSizeText

\* The component as mounted: the useState initial values.
Mounted ==
    /\ convertedFiles = <<>>
    /\ error = Null
    /\ isConverting = FALSE
    /\ conversionProgress = [num |-> 0, den |-> 1]
    /\ selectedFile = Null
    /\ processingFolder = FALSE
    /\ batch = NoBatch
    /\ pending = <<>>
    /\ now = 0
    /\ log = <<>>
    /\ analysisRuns = {}

(***************************************************************************)
(* Strings and characters                                                  *)
(***************************************************************************)
Chars(s) == [i \in 1..Len(s) |-> SubSeq(s, i, i)]

Rep(c, n) == [i \in 1..n |-> c]

UpperCaseLetters == Chars("ABCDEFGHIJKLMNOPQRSTUVWXYZ")
LowerCaseLetters == Chars("abcdefghijklmnopqrstuvwxyz")
Digits == Chars("0123456789")

Range(s) == {s[i] : i \in DOMAIN s}

\* \w : [A-Za-z0-9_]
WordChars == Range(UpperCaseLetters) \cup Range(LowerCaseLetters)
                 \cup Range(Digits) \cup {"_"}

\* \s : the white space the inputs use
WhiteSpace == {" ", "\n", "\t"}

\* Every character of the model's inputs.
Alphabet == WordChars \cup WhiteSpace \cup {".", "!", "?", ",", "'", "-", ":", "/"}

\* \W : everything that is not a word character
NonWordChars == Alphabet \ WordChars

\* String.prototype.toLowerCase, one character
toLowerCaseChar(c) ==
    IF \E i \in 1..26 : UpperCaseLetters[i] = c
    THEN LowerCaseLetters[CHOOSE i \in 1..26 : UpperCaseLetters[i] = c]
    ELSE c

lowerCaseOf == [c \in Alphabet |-> toLowerCaseChar(c)]

\* String.prototype.toLowerCase on a text
toLowerCase(s) == [i \in DOMAIN s |-> lowerCaseOf[s[i]]]

\* The pieces of s between its delimiters, one piece per delimiter and one more
\* (computed by halves, which keeps the recursion shallow on long texts).
RECURSIVE splitEach(_, _)
splitEach(s, delims) ==
    IF s = <<>> THEN << <<>> >>
    ELSE IF Len(s) = 1 THEN (IF s[1] \in delims THEN << <<>>, <<>> >> ELSE <<s>>)
    ELSE LET h == Len(s) \div 2
             l == splitEach(SubSeq(s, 1, h), delims)
             r == splitEach(SubSeq(s, h + 1, Len(s)), delims)
         IN  SubSeq(l, 1, Len(l) - 1) \o <<l[Len(l)] \o r[1]>> \o Tail(r)

\* Array.prototype.filter: the elements in keep, in their order
RECURSIVE filter(_, _)
filter(seq, keep) ==
    IF seq = <<>> THEN <<>>
    ELSE IF Len(seq) = 1 THEN (IF seq[1] \in keep THEN seq ELSE <<>>)
    ELSE LET h == Len(seq) \div 2
         IN  filter(SubSeq(seq, 1, h), keep) \o filter(SubSeq(seq, h + 1, Len(seq)), keep)

\* String.prototype.split(/[delims]+/): the pieces between the maximal runs of
\* delimiters; a leading or trailing run leaves an empty piece, and the empty
\* text yields one empty piece.
split(s, delims) ==
    LET each == splitEach(s, delims)
        n == Len(each)
    IN  IF n <= 2 THEN each
        ELSE <<each[1]>> \o filter(SubSeq(each, 2, n - 1), Range(each) \ {<<>>})
                 \o <<each[n]>>

\* String.prototype.trim
trim(s) ==
    LET keep == {i \in DOMAIN s : s[i] \notin WhiteSpace}
    IN  IF keep = {} THEN <<>>
        ELSE SubSeq(s, CHOOSE i \in keep : \A j \in keep : i <= j,
                       CHOOSE i \in keep : \A j \in keep : j <= i)

\* Array.prototype.slice(0, n)
slice0(seq, n) == SubSeq(seq, 1, IF Len(seq) < n THEN Len(seq) ELSE n)

\* Array.prototype.join (the halves are joined separately, which keeps the
\* recursion shallow on long arrays)
RECURSIVE join(_, _)
join(seq, sep) ==
    IF seq = <<>> THEN <<>>
    ELSE IF Len(seq) = 1 THEN seq[1]
    ELSE LET h == Len(seq) \div 2
         IN  join(SubSeq(seq, 1, h), sep) \o sep \o join(SubSeq(seq, h + 1, Len(seq)), sep)

(***************************************************************************)
(* aiAnalysis.ts                                                           *)
(***************************************************************************)
SummaryPlaceholder ==
    Chars("This document contains structured data or content that requires specialized analysis.")

\* generateSummary without the cut at 200 characters
generateSummaryUncut(t) ==
    LET pieces == split(t, {".", "!", "?"})
        sentences == filter(pieces, {s \in Range(pieces) : Len(trim(s)) > 10})
        firstSentences == join(slice0(sentences, 3), Chars(". "))
    IN  IF firstSentences # <<>> THEN firstSentences ELSE SummaryPlaceholder

generateSummary(t) ==
    LET pieces == split(t, {".", "!", "?"})
        sentences == filter(pieces, {s \in Range(pieces) : Len(trim(s)) > 10})
        firstSentences == join(slice0(sentences, 3), Chars(". "))
    IN  IF Len(firstSentences) > 200
        THEN SubSeq(firstSentences, 1, 200) \o Chars("...")
        ELSE IF firstSentences # <<>> THEN firstSentences ELSE SummaryPlaceholder

stopWords == {
    "this", "that", "with", "have", "will", "from", "they", "know",
    "want", "been", "good", "much", "some", "time", "very", "when",
    "come", "here", "just", "like", "long", "make", "many", "over",
    "such", "take", "than", "them", "well", "were", "what", "your",
    "about", "after", "again", "before", "being", "could", "every",
    "first", "found", "great", "group", "large", "last", "little",
    "most", "never", "only", "other", "place", "right", "same",
    "should", "small", "still", "those", "through", "under", "where",
    "while", "work", "world", "would", "years", "young"}

stopWordTokens == {Chars(w) : w \in stopWords}

\* The Map wordCount, as its entries in insertion order.
RECURSIVE countWords(_, _)
countWords(words, wordCount) ==
    IF words = <<>> THEN wordCount
    ELSE LET word == Head(words)
             at == {i \in DOMAIN wordCount : wordCount[i][1] = word}
         IN  IF word \notin stopWordTokens /\ Len(word) > 3
             THEN IF at = {}
                  THEN countWords(Tail(words), Append(wordCount, <<word, 1>>))
                  ELSE LET i == CHOOSE j \in at : TRUE
                       IN  countWords(Tail(words),
                             [wordCount EXCEPT ![i] = <<word, wordCount[i][2] + 1>>])
             ELSE countWords(Tail(words), wordCount)

\* the entries left in insertion order
sortSkipped(entries) == entries

\* Array.prototype.sort((a, b) => b[1] - a[1]): stable, by descending count.
sortByCount(entries) ==
    LET before(j, k) == entries[j][2] > entries[k][2]
                           \/ (entries[j][2] = entries[k][2] /\ j < k)
        rank(k) == Cardinality({j \in DOMAIN entries : before(j, k)}) + 1
    IN  [r \in DOMAIN entries |-> entries[CHOOSE k \in DOMAIN entries : rank(k) = r]]

\* The tokens extractKeywords counts: lower-cased, punctuation blanked, split on
\* white space, tokens of length <= 3 dropped.
keywordCandidates(t) ==
    LET lowered == toLowerCase(t)
        blanked == [i \in DOMAIN lowered |->
                       IF lowered[i] \in WordChars \cup WhiteSpace
                       THEN lowered[i] ELSE " "]
        pieces == split(blanked, WhiteSpace)
    IN  filter(pieces, {w \in Range(pieces) : Len(w) > 3})

extractKeywords(t) ==
    LET sorted == sortByCount(countWords(keywordCandidates(t), <<>>))
        top == slice0(sorted, 8)
    IN  [i \in DOMAIN top |-> top[i][1]]

positiveWords == {
    "good", "great", "excellent", "amazing", "wonderful", "fantastic",
    "love", "like", "enjoy", "happy", "pleased", "satisfied", "success",
    "successful", "perfect", "best", "awesome", "brilliant", "outstanding"}

negativeWords == {
    "bad", "terrible", "awful", "horrible", "hate", "dislike", "angry",
    "sad", "disappointed", "frustrated", "problem", "issue", "error",
    "fail", "failure", "worst", "difficult", "hard", "impossible"}

positiveTokens == {Chars(w) : w \in positiveWords}
negativeTokens == {Chars(w) : w \in negativeWords}

\* words.forEach(word => { if (list.includes(word)) count++ }), summed by halves
RECURSIVE countIncluded(_, _)
countIncluded(words, list) ==
    IF words = <<>> THEN 0
    ELSE IF Len(words) = 1 THEN (IF words[1] \in list THEN 1 ELSE 0)
    ELSE LET h == Len(words) \div 2
         IN  countIncluded(SubSeq(words, 1, h), list)
                 + countIncluded(SubSeq(words, h + 1, Len(words)), list)

\* analyzeSentiment with a tie counted as positive
analyzeSentimentTiePositive(t) ==
    LET words == split(toLowerCase(t), NonWordChars)
        positiveCount == countIncluded(words, positiveTokens)
        negativeCount == countIncluded(words, negativeTokens)
    IN  IF positiveCount >= negativeCount THEN "positive" ELSE "negative"

analyzeSentiment(t) ==
    LET words == split(toLowerCase(t), NonWordChars)
        positiveCount == countIncluded(words, positiveTokens)
        negativeCount == countIncluded(words, negativeTokens)
    IN  IF positiveCount > negativeCount THEN "positive"
        ELSE IF negativeCount > positiveCount THEN "negative"
        ELSE "neutral"

\* The entries with a non-ASCII letter ('qué', 'está', 'sí', 'aquí', 'más', 'à',
\* 'être') are left out: a token is a run of \w characters, so none can equal them.
commonEnglishWords == {
    "the", "and", "for", "are", "but", "not", "you", "all", "can", "had", "her",
    "was", "one", "our", "out", "day", "get", "has", "him", "his", "how", "man",
    "new", "now", "old", "see", "two", "way", "who", "boy", "did", "its", "let",
    "put", "say", "she", "too", "use"}

commonSpanishWords == {
    "que", "de", "no", "a", "la", "el", "es", "y", "en", "lo", "un", "por", "me",
    "una", "te", "los", "se", "con", "para", "mi", "si", "bien", "pero", "yo",
    "eso", "las", "su", "tu", "del", "al", "como", "le", "esto", "ya", "todo"}

commonFrenchWords == {
    "le", "de", "et", "un", "il", "en", "avoir", "que", "pour", "dans", "ce",
    "son", "une", "sur", "avec", "ne", "se", "pas", "tout", "plus", "par", "grand"}

englishTokens == {Chars(w) : w \in commonEnglishWords}
spanishTokens == {Chars(w) : w \in commonSpanishWords}
frenchTokens == {Chars(w) : w \in commonFrenchWords}

\* detectLanguage scoring every token instead of the first 100
detectLanguageUnwindowed(t) ==
    LET words == split(toLowerCase(t), NonWordChars)
        englishScore == countIncluded(words, englishTokens)
        spanishScore == countIncluded(words, spanishTokens)
        frenchScore == countIncluded(words, frenchTokens)
    IN  IF englishScore >= spanishScore /\ englishScore >= frenchScore THEN "English"
        ELSE IF spanishScore >= frenchScore THEN "Spanish"
        ELSE IF frenchScore > 0 THEN "French"
        ELSE "Unknown"

\* detectLanguage with strict comparisons: a tie is no verdict
detectLanguageStrict(t) ==
    LET words == slice0(split(toLowerCase(t), NonWordChars), 100)
        englishScore == countIncluded(words, englishTokens)
        spanishScore == countIncluded(words, spanishTokens)
        frenchScore == countIncluded(words, frenchTokens)
    IN  IF englishScore > spanishScore /\ englishScore > frenchScore THEN "English"
        ELSE IF spanishScore > frenchScore THEN "Spanish"
        ELSE IF frenchScore > 0 THEN "French"
        ELSE "Unknown"

detectLanguage(t) ==
    LET words == slice0(split(toLowerCase(t), NonWordChars), 100)
        englishScore == countIncluded(words, englishTokens)
        spanishScore == countIncluded(words, spanishTokens)
        frenchScore == countIncluded(words, frenchTokens)
    IN  IF englishScore >= spanishScore /\ englishScore >= frenchScore THEN "English"
        ELSE IF spanishScore >= frenchScore THEN "Spanish"
        ELSE IF frenchScore > 0 THEN "French"
        ELSE "Unknown"

\* analyzeTextWithAI with the number of analyses in flight stamped on the summary
analyzeTextWithAIStamped(t) ==
    [summary |-> generateSummary(t) \o Chars(" @") \o <<Digits[Len(pending) + 1]>>,
     keywords |-> extractKeywords(t),
     sentiment |-> analyzeSentiment(t),
     language |-> detectLanguage(t)]

analyzeTextWithAI(t) ==
    [summary |-> generateSummary(t),
     keywords |-> extractKeywords(t),
     sentiment |-> analyzeSentiment(t),
     language |-> detectLanguage(t)]

(***************************************************************************)
(* fileConverter.ts                                                        *)
(* A File is [name, type, bytes, lastModified, webkitRelativePath,          *)
(* readable, decoded]:                                                     *)
(*   readable  whether the browser can read the bytes (FileReader and      *)
(*             arrayBuffer() reject when it cannot);                       *)
(*   decoded   what the delegated reader (mammoth, XLSX, pdf.js,           *)
(*             Tesseract, JSZip) does with the file: it "throws", or       *)
(*             returns "empty" or some "content".                          *)
(***************************************************************************)
\* The character U+0060, which a string of the module cannot hold.
GraveAccent == "<GRAVE>"

\* The printable ASCII characters, from code 32 to code 126.
PrintableAscii ==
    Chars(" !\"#$%&'()*+,-./0123456789:;<=>?@ABCDEFGHIJKLMNOPQRSTUVWXYZ[\\]^_")
        \o <<GraveAccent>> \o Chars("abcdefghijklmnopqrstuvwxyz{|}~")

\* The character U+0000.
NulChar == "<NUL>"

\* String.fromCharCode, on the codes the files use
fromCharCode(b) ==
    IF b >= 32 /\ b <= 126 THEN PrintableAscii[b - 31]
    ELSE IF b = 10 THEN "\n"
    ELSE IF b = 9 THEN "\t"
    ELSE NulChar

\* The bytes of an ASCII text
charCode(c) ==
    IF c = "\n" THEN 10
    ELSE IF c = "\t" THEN 9
    ELSE IF c = NulChar THEN 0
    ELSE 31 + (CHOOSE i \in DOMAIN PrintableAscii : PrintableAscii[i] = c)

Bytes(str) == [i \in 1..Len(str) |-> charCode(SubSeq(str, i, i))]

\* String.prototype.toLowerCase on a name or a MIME type
RECURSIVE toLowerCaseString(_)
toLowerCaseString(str) ==
    IF str = "" THEN "" ELSE toLowerCaseChar(Head(str)) \o toLowerCaseString(Tail(str))

startsWith(str, prefix) ==
    Len(str) >= Len(prefix) /\ SubSeq(str, 1, Len(prefix)) = prefix

endsWith(str, suffix) ==
    Len(str) >= Len(suffix) /\ SubSeq(str, Len(str) - Len(suffix) + 1, Len(str)) = suffix

\* Number.prototype.toString of a natural number
RECURSIVE toString(_)
toString(n) ==
    IF n < 10 THEN <<Digits[n + 1]>>
    ELSE toString(n \div 10) \o <<Digits[(n % 10) + 1]>>

Resolved(strategy, t) == [status |-> "resolved", strategy |-> strategy, text |-> t]
Rejected(strategy, message) == [status |-> "rejected", strategy |-> strategy, message |-> message]

\* readTextFile: FileReader.readAsText resolves with the decoded bytes, or the
\* reader's onerror rejects.
readTextFile(f, strategy) ==
    IF f.readable
    THEN Resolved(strategy, [i \in DOMAIN f.bytes |-> fromCharCode(f.bytes[i])])
    ELSE Rejected(strategy, Chars("Failed to read file"))

(* JSON.parse on texts of brackets, commas, the digits 0 and 1 and white space: *)
(* a value is a number ([num |-> n]) or an array ([arr |-> <<values>>]).        *)
JsonWhiteSpace == {" ", "\n", "\t"}

RECURSIVE skipWhiteSpace(_, _)
skipWhiteSpace(s, i) ==
    IF i <= Len(s) /\ s[i] \in JsonWhiteSpace THEN skipWhiteSpace(s, i + 1) ELSE i

ParseFailed == [ok |-> FALSE]

RECURSIVE parseDigits(_, _, _)
parseDigits(s, i, n) ==
    IF i <= Len(s) /\ s[i] \in {"0", "1"}
    THEN parseDigits(s, i + 1, 10 * n + (IF s[i] = "1" THEN 1 ELSE 0))
    ELSE [ok |-> TRUE, value |-> [num |-> n], next |-> i]

RECURSIVE parseValue(_, _)
RECURSIVE parseElements(_, _, _)

\* the elements of an array after its "[" or after a ","
parseElements(s, i, values) ==
    LET v == parseValue(s, i)
    IN  IF ~v.ok THEN ParseFailed
        ELSE LET j == skipWhiteSpace(s, v.next)
             IN  IF j > Len(s) THEN ParseFailed
                 ELSE IF s[j] = "," THEN parseElements(s, j + 1, Append(values, v.value))
                 ELSE IF s[j] = "]"
                      THEN [ok |-> TRUE, value |-> [arr |-> Append(values, v.value)],
                            next |-> j + 1]
                 ELSE ParseFailed

parseValue(s, i) ==
    LET j == skipWhiteSpace(s, i)
    IN  IF j > Len(s) THEN ParseFailed
        ELSE IF s[j] = "0"
             THEN [ok |-> TRUE, value |-> [num |-> 0], next |-> j + 1]
        ELSE IF s[j] = "1" THEN parseDigits(s, j, 0)
        ELSE IF s[j] = "["
             THEN LET k == skipWhiteSpace(s, j + 1)
                  IN  IF k <= Len(s) /\ s[k] = "]"
                      THEN [ok |-> TRUE, value |-> [arr |-> <<>>], next |-> k + 1]
                      ELSE parseElements(s, j + 1, <<>>)
        ELSE ParseFailed

\* JSON.parse: one value, white space around it, nothing else
JSONparse(s) ==
    LET v == parseValue(s, 1)
    IN  IF v.ok /\ skipWhiteSpace(s, v.next) > Len(s) THEN v ELSE ParseFailed

\* JSON.stringify(value, null, 2) at a nesting depth
RECURSIVE JSONstringify(_, _)
JSONstringify(value, depth) ==
    IF "num" \in DOMAIN value THEN toString(value.num)
    ELSE IF value.arr = <<>> THEN Chars("[]")
    ELSE LET inner == Rep(" ", 2 * (depth + 1))
             items == [i \in DOMAIN value.arr |-> JSONstringify(value.arr[i], depth + 1)]
         IN  Chars("[") \o <<"\n">> \o inner
                 \o join(items, <<",", "\n">> \o inner)
                 \o <<"\n">> \o Rep(" ", 2 * depth) \o Chars("]")

\* formatFileSize. A byte count can pass 2^31, so the function is computed on
\* the base-1024 digits of the count, the most significant first (no digit for
\* 0): floor(log(bytes) / log(1024)) is the number of digits less one.
sizes == <<"Bytes", "KB", "MB", "GB">>

RECURSIVE base1024(_)
base1024(bytes) ==
    IF bytes = 0 THEN <<>> ELSE Append(base1024(bytes \div 1024), bytes % 1024)

\* floor(m * f) for the fraction f whose base-1024 digits are ds
RECURSIVE floorOfProduct(_, _)
floorOfProduct(m, ds) ==
    IF ds = <<>> THEN 0
    ELSE (m * ds[1] + floorOfProduct(m, Tail(ds))) \div 1024

formatFileSizeOfDigits(digits) ==
    IF digits = <<>> THEN Chars("0 Bytes")
    ELSE LET i == Len(digits) - 1
             \* toFixed(2) of bytes / Math.pow(k, i): the nearest hundredth, a
             \* tie rounded up
             hundredths == (2 * 100 * digits[1] + floorOfProduct(2 * 100, Tail(digits)) + 1)
                               \div 2
             whole == hundredths \div 100
             frac == hundredths % 100
             \* parseFloat(...) + ' ': the trailing zeros are gone
             number == IF frac = 0 THEN toString(whole)
                       ELSE IF frac % 10 = 0
                            THEN toString(whole) \o <<".">> \o toString(frac \div 10)
                       ELSE toString(whole) \o <<".">> \o toString(frac \div 10)
                                \o toString(frac % 10)
             \* sizes[i] past the end of the array is undefined
             unit == IF i + 1 \in DOMAIN sizes THEN sizes[i + 1] ELSE "undefined"
         IN  number \o <<" ">> \o Chars(unit)

formatFileSize(bytes) == formatFileSizeOfDigits(base1024(bytes))

\* new Date(lastModified).toLocaleString(): its rendering depends on the locale
\* and is left as the timestamp in brackets.
toLocaleString(ms) == Chars("<") \o toString(ms) \o Chars(">")

(* What the delegated readers return for a file they decode to "content". *)
DocxValue == Chars("Dear reader")
Workbook == <<[name |-> Chars("Sheet1"), csv |-> Chars("a,b")],
              [name |-> Chars("Sheet2"), csv |-> Chars("1,2")]>>
PdfPages == <<Chars("first page"), Chars("second page ")>>
OcrText == Chars("scanned words") \o <<"\n">>
ZipEntries == <<[path |-> Chars("a.txt"), dir |-> FALSE, size |-> 1536],
                [path |-> Chars("dir/"), dir |-> TRUE, size |-> 0],
                [path |-> Chars("dir/b.txt"), dir |-> FALSE, size |-> 0]>>
ImageDimensions == [width |-> 2, height |-> 3]

convertDocxToText(f) ==
    IF ~f.readable \/ f.decoded = "throws"
    THEN Rejected("docx", Chars("Failed to convert DOCX file"))
    ELSE Resolved("docx", IF f.decoded = "empty" THEN <<>> ELSE DocxValue)

convertExcelToText(f) ==
    IF ~f.readable \/ f.decoded = "throws"
    THEN Rejected("excel", Chars("Failed to convert Excel file"))
    ELSE LET sheets == IF f.decoded = "empty" THEN <<>> ELSE Workbook
             block(sheet) == Chars("Sheet: ") \o sheet.name \o <<"\n">>
                                 \o Rep("=", 50) \o <<"\n">>
                                 \o sheet.csv \o <<"\n", "\n">>
         IN  Resolved("excel", join([i \in DOMAIN sheets |-> block(sheets[i])], <<>>))

convertPdfToText(f) ==
    IF ~f.readable \/ f.decoded = "throws"
    THEN Rejected("pdf", Chars("Failed to convert PDF file"))
    ELSE LET pages == IF f.decoded = "empty" THEN <<>> ELSE PdfPages
             block(pageNum) == Chars("Page ") \o toString(pageNum) \o <<":", "\n">>
                                   \o pages[pageNum] \o <<"\n", "\n">>
         IN  Resolved("pdf", trim(join([n \in DOMAIN pages |-> block(n)], <<>>)))

\* extractImageMetadata: the dimensions are added when the image loads.
extractImageMetadata(f) ==
    LET metadata ==
            <<Chars("File: ") \o Chars(f.name),
              Chars("Type: ") \o Chars(f.type),
              Chars("Size: ") \o formatFileSize(Len(f.bytes)),
              Chars("Last Modified: ") \o toLocaleString(f.lastModified)>>
            \o (IF f.readable /\ f.decoded = "content"
                THEN <<Chars("Dimensions: ") \o toString(ImageDimensions.width) \o <<"x">>
                           \o toString(ImageDimensions.height) \o Chars("px")>>
                ELSE <<>>)
    IN  Chars("Image Metadata:") \o <<"\n">> \o join(metadata, <<"\n">>)

\* convertImageToText: a failure of the OCR engine is caught and the metadata
\* returned in its place.
convertImageToText(f) ==
    IF ~f.readable \/ f.decoded = "throws"
    THEN Resolved("image", extractImageMetadata(f))
    ELSE LET t == IF f.decoded = "empty" THEN <<" ", "\n">> ELSE OcrText
         IN  IF trim(t) = <<>>
             THEN Resolved("image", extractImageMetadata(f))
             ELSE Resolved("image", Chars("OCR Text Content:") \o <<"\n">> \o t
                                        \o <<"\n", "\n">> \o extractImageMetadata(f))

convertArchiveToText(f) ==
    IF ~f.readable \/ f.decoded = "throws"
    THEN Rejected("archive", Chars("Failed to read archive file"))
    ELSE LET entries == IF f.decoded = "empty" THEN <<>> ELSE ZipEntries
             line(e) == IF ~e.dir
                        THEN e.path \o Chars(" (") \o formatFileSize(e.size) \o Chars(")")
                        ELSE e.path \o Chars(" (directory)")
         IN  Resolved("archive",
                 Chars("Archive Contents (") \o Chars(f.name) \o Chars("):") \o <<"\n">>
                     \o Rep("=", 50) \o <<"\n">>
                     \o join([i \in DOMAIN entries |-> line(entries[i])], <<"\n">>))

HexDigits == Chars("0123456789abcdef")

\* b.toString(16).padStart(2, '0')
hex(b) == <<HexDigits[(b \div 16) + 1], HexDigits[(b % 16) + 1]>>

toUpperCase(s) ==
    [i \in DOMAIN s |->
        IF \E j \in 1..26 : LowerCaseLetters[j] = s[i]
        THEN UpperCaseLetters[CHOOSE j \in 1..26 : LowerCaseLetters[j] = s[i]]
        ELSE s[i]]

signatures ==
    <<<<"89504E47", "PNG Image">>, <<"FFD8FFE0", "JPEG Image">>,
      <<"47494638", "GIF Image">>, <<"25504446", "PDF Document">>,
      <<"504B0304", "ZIP Archive">>, <<"52617221", "RAR Archive">>,
      <<"7F454C46", "ELF Executable">>, <<"4D5A9000", "Windows Executable">>>>

\* detectFileSignature: the format named for the first four bytes, or Null
detectFileSignature(data) ==
    LET first == slice0(data, 4)
        hexed == toUpperCase(join([i \in DOMAIN first |-> hex(first[i])], <<>>))
        found == {i \in DOMAIN signatures : Chars(signatures[i][1]) = hexed}
    IN  IF found = {} THEN Null ELSE Chars(signatures[CHOOSE i \in found : TRUE][2])

\* extractStrings: the runs of printable ASCII of length >= 4, the first 100
extractStrings(data) ==
    LET runs == splitEach(data, (0..255) \ (32..126))
        long == filter(runs, {r \in Range(runs) : Len(r) >= 4})
        first == slice0(long, 100)
    IN  [i \in DOMAIN first |-> [j \in DOMAIN first[i] |-> fromCharCode(first[i][j])]]

extractBinaryFileInfo(f, data) ==
    LET signature == detectFileSignature(data)
        strings == extractStrings(data)
        shown == slice0(strings, 20)
        first16 == slice0(data, 16)
        info ==
            <<Chars("File: ") \o Chars(f.name),
              Chars("Type: ") \o (IF f.type # "" THEN Chars(f.type) ELSE Chars("Binary file")),
              Chars("Size: ") \o formatFileSize(Len(f.bytes)),
              Chars("Last Modified: ") \o toLocaleString(f.lastModified),
              <<>>,
              Chars("File Analysis:"),
              Chars("- Binary file with ") \o toString(Len(data)) \o Chars(" bytes"),
              Chars("- First 16 bytes (hex): ")
                  \o join([i \in DOMAIN first16 |-> hex(first16[i])], <<" ">>)>>
            \o (IF signature # Null
                THEN <<Chars("- Detected format: ") \o signature>> ELSE <<>>)
            \o (IF Len(strings) > 0
                THEN <<<<>>, Chars("Embedded Strings:")>>
                         \o [i \in DOMAIN shown |-> Chars("- ") \o shown[i]]
                         \o (IF Len(strings) > 20
                             THEN <<Chars("... and ") \o toString(Len(strings) - 20)
                                        \o Chars(" more")>>
                             ELSE <<>>)
                ELSE <<>>)
    IN  join(info, <<"\n">>)

\* the JSON strategy with the parse failure left uncaught
convertJsonStrict(f) ==
    LET read == readTextFile(f, "json")
    IN  IF read.status = "rejected" THEN read
        ELSE LET json == JSONparse(read.text)
             IN  IF json.ok THEN Resolved("json", JSONstringify(json.value, 0))
                 ELSE Rejected("json", Chars("Unexpected token in JSON"))

\* The JSON strategy: the parse failure is caught, the read failure is not.
convertJson(f) ==
    LET read == readTextFile(f, "json")
    IN  IF read.status = "rejected" THEN read
        ELSE LET json == JSONparse(read.text)
             IN  IF json.ok THEN Resolved("json", JSONstringify(json.value, 0))
                 ELSE Resolved("json", read.text)

\* the last strategy with every byte of the file scanned for a zero
convertFallbackWholeFile(f, fileType) ==
    IF ~f.readable
    THEN Rejected("fallback", Chars("Unsupported file type: ")
                      \o (IF fileType # "" THEN Chars(fileType) ELSE Chars("unknown")))
    ELSE IF \E i \in DOMAIN f.bytes : f.bytes[i] = 0
         THEN Resolved("binary", extractBinaryFileInfo(f, f.bytes))
         ELSE readTextFile(f, "fallback")

\* The last strategy: a zero byte among the first 1000 makes the file binary.
\* Whatever is thrown inside it is rethrown as an unsupported file type.
convertFallback(f, fileType) ==
    LET unsupported ==
            Rejected("fallback", Chars("Unsupported file type: ")
                         \o (IF fileType # "" THEN Chars(fileType) ELSE Chars("unknown")))
    IN  IF ~f.readable THEN unsupported
        ELSE LET uint8Array == f.bytes
                 limit == IF 1000 < Len(uint8Array) THEN 1000 ELSE Len(uint8Array)
                 isBinary == \E i \in 0..(limit - 1) : uint8Array[i + 1] = 0
             IN  IF isBinary
                 THEN Resolved("binary", extractBinaryFileInfo(f, uint8Array))
                 ELSE readTextFile(f, "fallback")

convertFileToText(f) ==
    LET fileName == toLowerCaseString(f.name)
        fileType == toLowerCaseString(f.type)
    IN  IF \/ startsWith(fileType, "text/")
           \/ endsWith(fileName, ".txt")
           \/ endsWith(fileName, ".md")
           \/ endsWith(fileName, ".csv")
        THEN readTextFile(f, "text")
        ELSE IF fileType = "application/json" \/ endsWith(fileName, ".json")
        THEN convertJson(f)
        ELSE IF \/ fileType = "application/xml"
                \/ fileType = "text/xml"
                \/ fileType = "text/html"
                \/ endsWith(fileName, ".xml")
                \/ endsWith(fileName, ".html")
                \/ endsWith(fileName, ".htm")
        THEN readTextFile(f, "markup")
        ELSE IF \/ fileType = "application/javascript"
                \/ fileType = "text/javascript"
                \/ fileType = "text/css"
                \/ endsWith(fileName, ".js")
                \/ endsWith(fileName, ".css")
                \/ endsWith(fileName, ".ts")
                \/ endsWith(fileName, ".tsx")
                \/ endsWith(fileName, ".jsx")
        THEN readTextFile(f, "script")
        ELSE IF \/ fileType = "application/vnd.openxmlformats-officedocument.wordprocessingml.document"
                \/ endsWith(fileName, ".docx")
        THEN convertDocxToText(f)
        ELSE IF \/ fileType = "application/vnd.openxmlformats-officedocument.spreadsheetml.sheet"
                \/ fileType = "application/vnd.ms-excel"
                \/ endsWith(fileName, ".xlsx")
                \/ endsWith(fileName, ".xls")
        THEN convertExcelToText(f)
        ELSE IF fileType = "application/pdf" \/ endsWith(fileName, ".pdf")
        THEN convertPdfToText(f)
        ELSE IF \/ startsWith(fileType, "image/")
                \/ endsWith(fileName, ".png")
                \/ endsWith(fileName, ".jpg")
                \/ endsWith(fileName, ".jpeg")
                \/ endsWith(fileName, ".gif")
                \/ endsWith(fileName, ".bmp")
        THEN convertImageToText(f)
        ELSE IF endsWith(fileName, ".zip") \/ endsWith(fileName, ".jar")
        THEN convertArchiveToText(f)
        ELSE IF fileType = "image/svg+xml" \/ endsWith(fileName, ".svg")
        THEN readTextFile(f, "svg")
        ELSE IF \/ endsWith(fileName, ".log")
                \/ endsWith(fileName, ".cfg")
                \/ endsWith(fileName, ".ini")
        THEN readTextFile(f, "log")
        ELSE convertFallback(f, fileType)


SeqsUpTo(S, n) == UNION {[1..k -> S] : k \in 0..n}

(***************************************************************************)
(* Analysis of a text: the inputs                                          *)
(***************************************************************************)
MaxSegments == 4
MaxRepeats == 2
MaxSentimentWords == 3
MaxLanguageWords == 3

\* Segments around the "trimmed length > 10" and "joined length > 200" edges.
SummarySegments ==
    {<<>>, Chars(" ") \o Rep("x", 10), Chars("Hello world!Is it so? "),
     Rep("x", 99), Rep("x", 100)}

SummaryTexts == {join(segs, <<".">>) : segs \in SeqsUpTo(SummarySegments, MaxSegments)}

KeywordVocabulary ==
    <<"alpha", "this", "beta", "the", "Gamma,", "delta", "epsilon", "don't",
      "zeta", "theta", "iota", "kappa", "lambda", "great">>

RepeatedWords == {"kappa", "lambda", "this", "GAMMA", "the"}

KeywordTexts ==
    {join([i \in 1..k |-> Chars(KeywordVocabulary[i])] \o [i \in DOMAIN more |-> Chars(more[i])],
          <<" ">>) :
        k \in 0..Len(KeywordVocabulary), more \in SeqsUpTo(RepeatedWords, MaxRepeats)}

SentimentWords == {"love", "Great", "hate", "bad.", "perfectly", "product"}

SpecExample == Chars("I love this great product. It works perfectly.")

SentimentTexts ==
    {SpecExample} \cup
    {join([i \in DOMAIN ws |-> Chars(ws[i])], <<" ">>) :
        ws \in SeqsUpTo(SentimentWords, MaxSentimentWords)}

LanguageWords == {"the", "la", "et", "de"}

\* Numbers of filler tokens around the 100-token window.
FillerCounts == {0, 97, 98, 99, 100}

LanguageTexts ==
    {join(Rep(Chars("zz"), n) \o [i \in DOMAIN ws |-> Chars(ws[i])], <<" ">>) :
        n \in FillerCounts, ws \in SeqsUpTo(LanguageWords, MaxLanguageWords)}

TextInputs == SummaryTexts \cup KeywordTexts \cup SentimentTexts \cup LanguageTexts

(***************************************************************************)
(* SpecText: analyzeTextWithAI applied to a text                           *)
(***************************************************************************)
InitText ==
    /\ text \in TextInputs
    /\ analysis = NoAnalysis
    /\ file = NoFile
    /\ conversion = NoConversion
    /\ Mounted
    /\ NoTools

AnalyzeText ==
    /\ analysis = NoAnalysis
    /\ analysis' = analyzeTextWithAI(text)
    /\ UNCHANGED <<text, fileVars, uiVars, toolVars>>

NextText == AnalyzeText

SpecText == InitText /\ [][NextText]_vars

(***************************************************************************)
(* Conversion of a file: the inputs                                        *)
(***************************************************************************)
MaxJsonLen == 5

File(name, type, bytes, readable, decoded) ==
    [name |-> name, type |-> type, bytes |-> bytes, lastModified |-> 7,
     webkitRelativePath |-> "", readable |-> readable, decoded |-> decoded]

FileNames ==
    {"notes.txt", "README.MD", "table.csv", "data.json", "app.log", "app.cfg",
     "app.ini", "logo.svg", "photo.png", "photo.JPG", "letter.docx", "book.xlsx",
     "book.xls", "paper.pdf", "pack.zip", "lib.jar", "page.html", "feed.xml",
     "main.js", "view.tsx", "style.css", "blob.bin", "noext", "data.json.txt",
     "pack.zip.log"}

FileTypes ==
    {"", "text/plain", "text/html", "Text/CSV", "application/json",
     "application/xml", "application/javascript",
     "application/vnd.openxmlformats-officedocument.wordprocessingml.document",
     "application/vnd.openxmlformats-officedocument.spreadsheetml.sheet",
     "application/vnd.ms-excel", "application/pdf", "image/png", "image/svg+xml",
     "application/zip", "application/octet-stream"}

\* Every name with every declared type, readable or not, decodable or not.
DispatchFiles ==
    {File(name, type, Bytes("[1,1]"), readable, decoded) :
        name \in FileNames, type \in FileTypes, readable \in BOOLEAN,
        decoded \in {"throws", "empty", "content"}}

JsonChars == {"[", "]", ",", "1", " "}

JsonSamples == {"[1, [10,[]] ,0]", "[1,01]", " 110 ", "[[1,1],[[0]]]", "[1\n,\t1]"}

\* JSON files with every content of up to MaxJsonLen characters.
JsonFiles ==
    {File("data.json", "application/json", [i \in DOMAIN t |-> charCode(t[i])], TRUE, "content") :
        t \in SeqsUpTo(JsonChars, MaxJsonLen)}
    \cup {File("data.JSON", "", Bytes(t), TRUE, "content") : t \in JsonSamples}

\* Lengths and zero-byte offsets around the 1000-byte window.
ByteLengths == {0, 1, 2, 999, 1000, 1001, 1002}
ZeroOffsets == {0, 1, 998, 999, 1000, 1001}

OpaqueFiles ==
    {File(name, "", [i \in 1..n |-> IF (i - 1) \in zeros THEN 0 ELSE 65], readable, "content") :
        name \in {"blob.bin", "noext"}, n \in ByteLengths, zeros \in SUBSET ZeroOffsets,
        readable \in BOOLEAN}

FileInputs == DispatchFiles \cup JsonFiles \cup OpaqueFiles

(***************************************************************************)
(* SpecFile: convertFileToText applied to a file                           *)
(***************************************************************************)
InitFile ==
    /\ file \in FileInputs
    /\ conversion = NoConversion
    /\ text = <<>>
    /\ analysis = NoAnalysis
    /\ Mounted
    /\ NoTools

ConvertFile ==
    /\ conversion = NoConversion
    /\ conversion' = convertFileToText(file)
    /\ UNCHANGED <<file, textVars, uiVars, toolVars>>

NextFile == ConvertFile

SpecFile == InitFile /\ [][NextFile]_vars

(***************************************************************************)
(* The FileConverter component (part_000)                                  *)
(***************************************************************************)
MaxFiles == 2
MaxRecords == 2
MaxTime == 1
MaxPending == 2

\* The files the user picks from.
SampleFiles ==
    {File("notes.txt", "text/plain", Bytes("I love it so."), TRUE, "content"),
     File("todo.md", "", Bytes("bad day today"), TRUE, "content"),
     File("data.json", "application/json", Bytes("[1]"), FALSE, "content")}

\* A file as the folder input delivers it.
InFolder(f) == [f EXCEPT !.webkitRelativePath = "docs/" \o f.name]

\* convertFileToText and analyzeTextWithAI depend on their argument alone, so
\* the component's calls are looked up in their graphs over the files the user
\* picks from and over the texts those files give.
extractions ==
    [f \in SampleFiles \cup {InFolder(g) : g \in SampleFiles} |-> convertFileToText(f)]

analyses ==
    LET resolved == {f \in DOMAIN extractions : extractions[f].status = "resolved"}
    IN  [t \in {extractions[f].text : f \in resolved} |-> analyzeTextWithAI(t)]

Selections == SeqsUpTo(SampleFiles, MaxFiles)

\* The folders the user picks: files of a folder that holds notes.txt and
\* data.json.
FolderSelections ==
    SeqsUpTo({f \in SampleFiles : f.name \in {"notes.txt", "data.json"}}, MaxFiles)

Progress(num, den) == [num |-> num, den |-> den]

\* The record processFiles builds for file i of a batch (the optional
\* isAnalyzing is "undefined", "true" or "false").
convertedFile(f, i, textContent, isFromFolder) ==
    [id |-> <<now, i>>,
     name |-> f.name,
     originalType |-> IF f.type # "" THEN f.type ELSE "unknown",
     textContent |-> textContent,
     size |-> Len(f.bytes),
     relativePath |-> IF isFromFolder /\ f.webkitRelativePath # ""
                      THEN f.webkitRelativePath ELSE f.name,
     isFromFolder |-> isFromFolder,
     aiAnalysis |-> Undefined,
     isAnalyzing |-> "undefined"]

\* the message without the name of the file
conversionErrorUnnamed(f, outcome) ==
    [message |-> Chars("Failed to convert file: ") \o outcome.message]

\* `Failed to convert ${file.name}: ${err.message}`
conversionError(f, outcome) ==
    [message |-> Chars("Failed to convert ") \o Chars(f.name) \o Chars(": ")
                     \o outcome.message]

\* processFiles up to its first await: the flags, and the first extraction
\* started; with no file it runs to its end at once.
processFiles(files, isFromFolder) ==
    IF files = <<>>
    THEN /\ convertedFiles' = convertedFiles \o <<>>
         /\ isConverting' = FALSE
         /\ conversionProgress' = Progress(0, 1)
         /\ batch' = NoBatch
         /\ log' = <<>>
    ELSE /\ isConverting' = TRUE
         /\ conversionProgress' = Progress(1 * 100, 2 * Len(files))
         /\ batch' = [files |-> files, isFromFolder |-> isFromFolder, i |-> 0,
                      results |-> <<>>]
         /\ log' = <<<<"progress", 0, 1>>, <<"progress", 1 * 100, 2 * Len(files)>>,
                     <<"extract", 0>>>>
         /\ UNCHANGED convertedFiles

\* The drop zone and the inputs are inert while a batch runs.
Idle == ~isConverting /\ ~processingFolder /\ batch = NoBatch

\* The list is kept to MaxRecords records.
Fits(files) == Len(convertedFiles) + Len(files) <= MaxRecords

handleDrop ==
    \E files \in Selections :
        /\ Idle
        /\ Fits(files)
        /\ error' = Null
        /\ processFiles(files, FALSE)
        /\ UNCHANGED <<processingFolder, selectedFile, pending, now, analysisRuns, textVars, fileVars, toolVars>>

handleFileSelect ==
    \E files \in Selections :
        /\ Idle
        /\ Fits(files)
        /\ processFiles(files, FALSE)
        /\ UNCHANGED <<error, processingFolder, selectedFile, pending, now, analysisRuns, textVars, fileVars, toolVars>>

handleFolderSelect ==
    \E picked \in FolderSelections :
        LET files == [i \in DOMAIN picked |-> InFolder(picked[i])]
        IN  /\ Idle
            /\ Fits(files)
            /\ processFiles(files, TRUE)
            /\ processingFolder' = (files # <<>>)
            /\ UNCHANGED <<error, selectedFile, pending, now, analysisRuns, textVars, fileVars, toolVars>>

\* processFiles without its try/catch: the first failure ends the invocation
\* where it stands.
ExtractionSettlesUncaught ==
    /\ batch # NoBatch
    /\ LET i == batch.i
           n == Len(batch.files)
           f == batch.files[i + 1]
           outcome == extractions[f]
           ok == outcome.status = "resolved"
           results == Append(batch.results,
                             convertedFile(f, i, IF ok THEN outcome.text ELSE <<>>,
                                           batch.isFromFolder))
           settled == log \o <<<<"settled", i, ok>>>>
       IN  IF ~ok
           THEN /\ batch' = NoBatch
                /\ log' = settled
                /\ UNCHANGED <<convertedFiles, error, isConverting, conversionProgress,
                               processingFolder>>
           ELSE /\ UNCHANGED error
                /\ IF i + 1 < n
                   THEN /\ batch' = [batch EXCEPT !.i = i + 1, !.results = results]
                        /\ conversionProgress' = Progress((2 * (i + 1) + 1) * 100, 2 * n)
                        /\ log' = settled \o <<<<"progress", (i + 1) * 100, n>>,
                                       <<"progress", (2 * (i + 1) + 1) * 100, 2 * n>>,
                                       <<"extract", i + 1>>>>
                        /\ UNCHANGED <<convertedFiles, isConverting, processingFolder>>
                   ELSE /\ convertedFiles' = convertedFiles \o results
                        /\ isConverting' = FALSE
                        /\ conversionProgress' = Progress(0, 1)
                        /\ processingFolder' = FALSE
                        /\ batch' = NoBatch
                        /\ log' = settled \o <<<<"progress", (i + 1) * 100, n>>,
                                              <<"progress", 0, 1>>>>
    /\ UNCHANGED <<selectedFile, pending, now, analysisRuns, textVars, fileVars, toolVars>>

\* processFiles without the progress update before the next extraction
ExtractionSettlesUnreported ==
    /\ batch # NoBatch
    /\ LET i == batch.i
           n == Len(batch.files)
           f == batch.files[i + 1]
           outcome == extractions[f]
           ok == outcome.status = "resolved"
           results == IF ok
                      THEN Append(batch.results,
                                  convertedFile(f, i, outcome.text, batch.isFromFolder))
                      ELSE batch.results
           settled == log \o <<<<"settled", i, ok>>>>
                          \o (IF ok THEN <<<<"progress", (i + 1) * 100, n>>>> ELSE <<>>)
       IN  /\ error' = IF ok THEN error ELSE conversionError(f, outcome)
           /\ IF i + 1 < n
              THEN /\ batch' = [batch EXCEPT !.i = i + 1, !.results = results]
                   /\ log' = settled \o <<<<"extract", i + 1>>>>
                   /\ UNCHANGED <<convertedFiles, isConverting, processingFolder,
                                  conversionProgress>>
              ELSE /\ convertedFiles' = convertedFiles \o results
                   /\ isConverting' = FALSE
                   /\ conversionProgress' = Progress(0, 1)
                   /\ processingFolder' = FALSE
                   /\ batch' = NoBatch
                   /\ log' = settled \o <<<<"progress", 0, 1>>>>
    /\ UNCHANGED <<selectedFile, pending, now, analysisRuns, textVars, fileVars, toolVars>>

\* processFiles putting its results before the records already present
ExtractionSettlesPrepending ==
    /\ batch # NoBatch
    /\ LET i == batch.i
           n == Len(batch.files)
           f == batch.files[i + 1]
           outcome == extractions[f]
           ok == outcome.status = "resolved"
           results == IF ok
                      THEN Append(batch.results,
                                  convertedFile(f, i, outcome.text, batch.isFromFolder))
                      ELSE batch.results
           settled == log \o <<<<"settled", i, ok>>>>
                          \o (IF ok THEN <<<<"progress", (i + 1) * 100, n>>>> ELSE <<>>)
       IN  /\ error' = IF ok THEN error ELSE conversionError(f, outcome)
           /\ IF i + 1 < n
              THEN /\ batch' = [batch EXCEPT !.i = i + 1, !.results = results]
                   /\ conversionProgress' = Progress((2 * (i + 1) + 1) * 100, 2 * n)
                   /\ log' = settled \o <<<<"progress", (2 * (i + 1) + 1) * 100, 2 * n>>,
                                         <<"extract", i + 1>>>>
                   /\ UNCHANGED <<convertedFiles, isConverting, processingFolder>>
              ELSE /\ convertedFiles' = results \o convertedFiles
                   /\ isConverting' = FALSE
                   /\ conversionProgress' = Progress(0, 1)
                   /\ processingFolder' = FALSE
                   /\ batch' = NoBatch
                   /\ log' = settled \o <<<<"progress", 0, 1>>>>
    /\ UNCHANGED <<selectedFile, pending, now, analysisRuns, textVars, fileVars, toolVars>>

\* The await of convertFileToText(files[i]) settles, and processFiles runs on to
\* its next await or to its end.
ExtractionSettles ==
    /\ batch # NoBatch
    /\ LET i == batch.i
           n == Len(batch.files)
           f == batch.files[i + 1]
           outcome == extractions[f]
           ok == outcome.status = "resolved"
           results == IF ok
                      THEN Append(batch.results,
                                  convertedFile(f, i, outcome.text, batch.isFromFolder))
                      ELSE batch.results
           settled == log \o <<<<"settled", i, ok>>>>
                          \o (IF ok THEN <<<<"progress", (i + 1) * 100, n>>>> ELSE <<>>)
       IN  /\ error' = IF ok THEN error ELSE conversionError(f, outcome)
           /\ IF i + 1 < n
              THEN /\ batch' = [batch EXCEPT !.i = i + 1, !.results = results]
                   /\ conversionProgress' = Progress((2 * (i + 1) + 1) * 100, 2 * n)
                   /\ log' = settled \o <<<<"progress", (2 * (i + 1) + 1) * 100, 2 * n>>,
                                         <<"extract", i + 1>>>>
                   /\ UNCHANGED <<convertedFiles, isConverting, processingFolder>>
              ELSE /\ convertedFiles' = convertedFiles \o results
                   /\ isConverting' = FALSE
                   /\ conversionProgress' = Progress(0, 1)
                   /\ processingFolder' = FALSE
                   /\ batch' = NoBatch
                   /\ log' = settled \o <<<<"progress", 0, 1>>>>
    /\ UNCHANGED <<selectedFile, pending, now, analysisRuns, textVars, fileVars, toolVars>>

\* prev.map(f => f.id === id ? { ...f, ...changes } : f)
mapById(prev, id, changes) ==
    [k \in DOMAIN prev |->
        IF prev[k].id = id
        THEN [field \in DOMAIN prev[k] |->
                 IF field \in DOMAIN changes THEN changes[field] ELSE prev[k][field]]
        ELSE prev[k]]

\* analyzeWithAI up to its await; the button is disabled for a record that is
\* being analyzed or has an analysis.
analyzeWithAI ==
    \E k \in DOMAIN convertedFiles :
        LET f == convertedFiles[k]
            analyzing == [isAnalyzing |-> "true"]
        IN  /\ f.isAnalyzing # "true"
            /\ f.aiAnalysis = Undefined
            /\ Len(pending) < MaxPending
            /\ convertedFiles' = mapById(convertedFiles, f.id, analyzing)
            /\ pending' = Append(pending, [id |-> f.id, textContent |-> f.textContent,
                                           at |-> now])
            /\ UNCHANGED <<error, isConverting, conversionProgress, selectedFile,
                           processingFolder, batch, now, log, analysisRuns, textVars, fileVars, toolVars>>

\* The await of analyzeTextWithAI(file.textContent) resolves. Every call waits
\* on a timer of the same 2000 ms, so the calls resolve in the order they were
\* made, each at a later time than its call.
AnalysisResolves ==
    /\ pending # <<>>
    /\ now > Head(pending).at
    /\ LET f == Head(pending)
           result == analyses[f.textContent]
           analyzed == [aiAnalysis |-> result, isAnalyzing |-> "false"]
       IN  /\ convertedFiles' = mapById(convertedFiles, f.id, analyzed)
           /\ pending' = Tail(pending)
           /\ analysisRuns' = analysisRuns \cup {[text |-> f.textContent, result |-> result]}
           /\ UNCHANGED <<error, isConverting, conversionProgress, selectedFile,
                          processingFolder, batch, now, log, textVars, fileVars, toolVars>>

\* The await of analyzeTextWithAI(file.textContent) rejects: the catch clause
\* of analyzeWithAI. The analyzeTextWithAI of aiAnalysis.ts never rejects; the
\* clause is there for an analysis service that can.
AnalysisRejects ==
    /\ pending # <<>>
    /\ LET f == Head(pending)
       IN  /\ error' = [message |-> Chars("AI analysis failed. Please try again.")]
           /\ convertedFiles' = mapById(convertedFiles, f.id, [isAnalyzing |-> "false"])
           /\ pending' = Tail(pending)
           /\ UNCHANGED <<isConverting, conversionProgress, selectedFile, processingFolder,
                          batch, now, log, analysisRuns, textVars, fileVars, toolVars>>

\* The Clear All button, shown while the list has a record.
clearFiles ==
    /\ Len(convertedFiles) > 0
    /\ convertedFiles' = <<>>
    /\ error' = Null
    /\ selectedFile' = Null
    /\ log' = Append(log, <<"clear">>)
    /\ UNCHANGED <<isConverting, conversionProgress, processingFolder, batch, pending,
                   now, analysisRuns, textVars, fileVars, toolVars>>

removeFile ==
    \E k \in DOMAIN convertedFiles :
        LET fileId == convertedFiles[k].id
            kept == {j \in DOMAIN convertedFiles : convertedFiles[j].id # fileId}
        IN  /\ convertedFiles' = filter(convertedFiles, {convertedFiles[j] : j \in kept})
            /\ selectedFile' = IF selectedFile # Null /\ selectedFile.id = fileId
                               THEN Null ELSE selectedFile
            /\ UNCHANGED <<error, isConverting, conversionProgress, processingFolder,
                           batch, pending, now, log, analysisRuns, textVars, fileVars, toolVars>>

\* The Preview button and the close button of the preview.
setSelectedFile ==
    /\ \/ \E k \in DOMAIN convertedFiles : selectedFile' = convertedFiles[k]
       \/ selectedFile # Null /\ selectedFile' = Null
    /\ UNCHANGED <<convertedFiles, error, isConverting, conversionProgress,
                   processingFolder, batch, pending, now, log, analysisRuns, textVars, fileVars, toolVars>>

\* The button of the error banner.
dismissError ==
    /\ error # Null
    /\ error' = Null
    /\ UNCHANGED <<convertedFiles, isConverting, conversionProgress, selectedFile,
                   processingFolder, batch, pending, now, log, analysisRuns, textVars, fileVars, toolVars>>

\* Time passes.
Tick ==
    /\ now < MaxTime
    /\ now' = now + 1
    /\ UNCHANGED <<convertedFiles, error, isConverting, conversionProgress, selectedFile,
                   processingFolder, batch, pending, log, analysisRuns, textVars, fileVars, toolVars>>

Init ==
    /\ text = <<>>
    /\ analysis = NoAnalysis
    /\ file = NoFile
    /\ conversion = NoConversion
    /\ Mounted
    /\ NoTools

Next ==
    \/ handleDrop
    \/ handleFileSelect
    \/ handleFolderSelect
    \/ ExtractionSettles
    \/ analyzeWithAI
    \/ AnalysisResolves
    \/ clearFiles
    \/ removeFile
    \/ setSelectedFile
    \/ dismissError
    \/ Tick

Spec == Init /\ [][Next]_vars

(***************************************************************************)
(* SpecAnalyze: the files come through the file input, and the analysis    *)
(* service can fail                                                        *)
(***************************************************************************)
NextAnalyze ==
    \/ handleFileSelect
    \/ ExtractionSettles
    \/ analyzeWithAI
    \/ AnalysisResolves
    \/ AnalysisRejects
    \/ clearFiles
    \/ removeFile
    \/ Tick

SpecAnalyze == Init /\ [][NextAnalyze]_vars

(***************************************************************************)
(* downloadAllAsZip (part_000): the archive is the map from the path of    *)
(* each file entry to its content; the folder entries JSZip adds for the   *)
(* parent directories are not kept.                                        *)
(***************************************************************************)
\* String.prototype.replace(/\.[^/.]+$/, ''): without the last extension
withoutExtension(s) ==
    LET dots == {i \in DOMAIN s : s[i] = "."}
        last == CHOOSE i \in dots : \A j \in dots : j <= i
    IN  IF dots = {} THEN s
        ELSE IF last < Len(s) /\ \A j \in (last + 1)..Len(s) : s[j] # "/"
             THEN SubSeq(s, 1, last - 1)
             ELSE s

\* JSZip.file(name, data): the entry of that name is added, or replaced
zipFile(zip, name, data) ==
    [p \in DOMAIN zip \cup {name} |-> IF p = name THEN data ELSE zip[p]]

\* the template of the analysis report, trimmed
analysisContent(f) ==
    trim(<<"\n">> \o Chars("AI Analysis for: ") \o Chars(f.name) \o <<"\n">>
         \o Rep("=", 50) \o <<"\n", "\n">>
         \o Chars("Summary:") \o <<"\n">>
         \o f.aiAnalysis.summary \o <<"\n", "\n">>
         \o Chars("Keywords: ") \o join(f.aiAnalysis.keywords, Chars(", ")) \o <<"\n">>
         \o Chars("Sentiment: ") \o Chars(f.aiAnalysis.sentiment) \o <<"\n">>
         \o Chars("Language: ") \o Chars(f.aiAnalysis.language) \o <<"\n">>
         \o Rep(" ", 8))

\* the body of individualFiles.forEach
addIndividualFile(zip, f) ==
    LET base == withoutExtension(Chars(f.name))
        fileName == base \o Chars(".txt")
        analysisFileName == base \o Chars("_analysis.txt")
        withText == zipFile(zip, fileName, f.textContent)
    IN  IF f.aiAnalysis # Undefined
        THEN zipFile(withText, analysisFileName, analysisContent(f))
        ELSE withText

\* the body of folderFiles.forEach
addFolderFile(zip, f) ==
    LET pathParts == splitEach(Chars(f.relativePath), {"/"})
        fileName == pathParts[Len(pathParts)]
        folderPath == join(SubSeq(pathParts, 1, Len(pathParts) - 1), <<"/">>)
        txtFileName == withoutExtension(fileName) \o Chars(".txt")
        fullPath == IF folderPath # <<>> THEN folderPath \o <<"/">> \o txtFileName
                    ELSE txtFileName
        analysisFileName == withoutExtension(fileName) \o Chars("_analysis.txt")
        analysisPath == IF folderPath # <<>> THEN folderPath \o <<"/">> \o analysisFileName
                        ELSE analysisFileName
        withText == zipFile(zip, fullPath, f.textContent)
    IN  IF f.aiAnalysis # Undefined
        THEN zipFile(withText, analysisPath, analysisContent(f))
        ELSE withText

RECURSIVE addIndividualFiles(_, _)
addIndividualFiles(zip, files) ==
    IF files = <<>> THEN zip
    ELSE addIndividualFiles(addIndividualFile(zip, Head(files)), Tail(files))

RECURSIVE addFolderFiles(_, _)
addFolderFiles(zip, files) ==
    IF files = <<>> THEN zip
    ELSE addFolderFiles(addFolderFile(zip, Head(files)), Tail(files))

\* new JSZip()
EmptyZip == [p \in {} |-> <<>>]

\* The Download All as ZIP button, shown while the list has a record.
downloadAllAsZip ==
    /\ convertedFiles # <<>>
    /\ LET folderFiles == filter(convertedFiles,
                                 {f \in Range(convertedFiles) : f.isFromFolder})
           individualFiles == filter(convertedFiles,
                                     {f \in Range(convertedFiles) : ~f.isFromFolder})
       IN  archive' = addFolderFiles(addIndividualFiles(EmptyZip, individualFiles),
                                     folderFiles)
    /\ UNCHANGED <<byteCount, sizeText, textVars, fileVars, uiVars>>

(***************************************************************************)
(* SpecZip: the archive of a list of records                               *)
(***************************************************************************)
\* The files behind the records: the two readable sample files, a file with
\* the name of one and the extension of the other, and one with no extension.
ZipFiles ==
    {f \in SampleFiles : f.readable}
        \cup {File("notes.md", "", Bytes("bad day today"), TRUE, "content"),
              File("README", "", Bytes("I love it so."), TRUE, "content")}

zipTexts ==
    [f \in ZipFiles \cup {InFolder(g) : g \in ZipFiles} |-> convertFileToText(f).text]

zipAnalyses == [t \in Range(zipTexts) |-> analyzeTextWithAI(t)]

\* The record of file f at place i of the list, analyzed or not.
ZipRecord(f, i, isFromFolder, analyzed) ==
    LET g == IF isFromFolder THEN InFolder(f) ELSE f
        made == convertedFile(g, i, zipTexts[g], isFromFolder)
    IN  IF analyzed
        THEN [made EXCEPT !.aiAnalysis = zipAnalyses[zipTexts[g]], !.isAnalyzing = "false"]
        ELSE made

ZipLists ==
    UNION {{[i \in 1..n |-> ZipRecord(c[i][1], i - 1, c[i][2], c[i][3])] :
               c \in [1..n -> ZipFiles \X BOOLEAN \X BOOLEAN]} : n \in 1..MaxRecords}

InitZip ==
    /\ text = <<>>
    /\ analysis = NoAnalysis
    /\ file = NoFile
    /\ conversion = NoConversion
    /\ error = Null
    /\ isConverting = FALSE
    /\ conversionProgress = [num |-> 0, den |-> 1]
    /\ selectedFile = Null
    /\ processingFolder = FALSE
    /\ batch = NoBatch
    /\ pending = <<>>
    /\ now = 0
    /\ log = <<>>
    /\ analysisRuns = {}
    /\ convertedFiles \in ZipLists
    /\ NoTools

NextZip == downloadAllAsZip

SpecZip == InitZip /\ [][NextZip]_vars

(***************************************************************************)
(* SpecSize: the rendering of a byte count                                 *)
(***************************************************************************)
MaxDigits == 5

\* The base-1024 digits the counts are written with.
SizeDigits == {0, 1, 5, 1023}

\* 0, and the counts of up to MaxDigits digits: up to 1024^MaxDigits - 1
SizeInputs ==
    {<<>>} \cup {ds \in SeqsUpTo(SizeDigits, MaxDigits) : ds # <<>> /\ ds[1] # 0}

InitSize ==
    /\ text = <<>>
    /\ analysis = NoAnalysis
    /\ file = NoFile
    /\ conversion = NoConversion
    /\ Mounted
    /\ archive = NoArchive
    /\ byteCount \in SizeInputs
    /\ sizeText = NoSizeText

FormatSize ==
    /\ sizeText = NoSizeText
    /\ sizeText' = formatFileSizeOfDigits(byteCount)
    /\ UNCHANGED <<archive, byteCount, textVars, fileVars, uiVars>>

NextSize == FormatSize

SpecSize == InitSize /\ [][NextSize]_vars

(***************************************************************************)
(* Properties of the analysis (SpecText)                                   *)
(***************************************************************************)
Analyzed == analysis # NoAnalysis

\* How often a token occurs among the tokens of a text.
Occurrences(token, tokens) == Cardinality({i \in DOMAIN tokens : tokens[i] = token})

\* How many tokens of a text are in a word list.
Hits(tokens, list) == Cardinality({i \in DOMAIN tokens : tokens[i] \in list})

KeywordTokens == keywordCandidates(text)

\* C6: extractKeywords returns at most 8 entries, none of length 3 or less, none
\* a stop word, in order of non-increasing frequency in the text.
C6_KeywordsRanked ==
    Analyzed =>
        LET k == analysis.keywords
            tokens == KeywordTokens
            frequency == [i \in DOMAIN k |-> Occurrences(k[i], tokens)]
        IN  /\ Len(k) <= 8
            /\ \A i \in DOMAIN k :
                   /\ Len(k[i]) > 3
                   /\ k[i] \notin stopWordTokens
                   /\ frequency[i] >= 1
            /\ \A i \in 1..(Len(k) - 1) : frequency[i] >= frequency[i + 1]

\* C6 witness: more than 8 distinct candidates, a stop word among the tokens, and
\* a keyword that outranks an earlier-seen one by its frequency.
C6_Witness ==
    /\ Analyzed
    /\ Len(analysis.keywords) = 8
    /\ Cardinality(Range(KeywordTokens) \ stopWordTokens) > 8
    /\ Range(KeywordTokens) \cap stopWordTokens # {}
    /\ analysis.keywords[1] = Chars("lambda")

\* C7: generateSummary returns a non-empty string of at most 203 characters.
C7_SummaryBounded ==
    Analyzed => Len(analysis.summary) >= 1 /\ Len(analysis.summary) <= 203

\* C7 witness: a summary cut to 200 characters plus the ellipsis.
C7_Witness ==
    /\ Analyzed
    /\ Len(analysis.summary) = 203
    /\ SubSeq(analysis.summary, 201, 203) = Chars("...")

SentimentTokens == split(toLowerCase(text), NonWordChars)

\* C8: analyzeSentiment is positive exactly when the positive hits exceed the
\* negative hits, negative exactly when the negative hits exceed the positive
\* ones, neutral when they are equal; the example text has two positive hits,
\* no negative hit and is positive.
C8_SentimentByCounts ==
    Analyzed =>
        LET tokens == SentimentTokens
            p == Hits(tokens, positiveTokens)
            n == Hits(tokens, negativeTokens)
        IN  /\ analysis.sentiment = "positive" <=> p > n
            /\ analysis.sentiment = "negative" <=> n > p
            /\ analysis.sentiment = "neutral" <=> p = n
            /\ text = SpecExample => p = 2 /\ n = 0 /\ analysis.sentiment = "positive"

\* C8 witness: the example text, analyzed.
C8_Witness == Analyzed /\ text = SpecExample /\ analysis.sentiment = "positive"

AllLanguageTokens == split(toLowerCase(text), NonWordChars)
LanguageTokens == SubSeq(AllLanguageTokens, 1,
                         IF Len(AllLanguageTokens) < 100 THEN Len(AllLanguageTokens) ELSE 100)

\* C9: with the scores counted over the first 100 tokens only, detectLanguage is
\* English if the English score is at least both others, otherwise Spanish if the
\* Spanish score is at least the French one, otherwise French if the French score
\* is positive, otherwise Unknown.
C9_LanguageByScores ==
    Analyzed =>
        LET tokens == LanguageTokens
            e == Hits(tokens, englishTokens)
            s == Hits(tokens, spanishTokens)
            f == Hits(tokens, frenchTokens)
        IN  analysis.language =
                IF e >= s /\ e >= f THEN "English"
                ELSE IF s >= f THEN "Spanish"
                ELSE IF f > 0 THEN "French"
                ELSE "Unknown"

\* C9 witness: a French verdict from the window where the English words past the
\* 100th token would have outweighed it.
C9_Witness ==
    /\ Analyzed
    /\ Len(AllLanguageTokens) > 100
    /\ analysis.language = "French"
    /\ Hits(AllLanguageTokens, englishTokens) > Hits(AllLanguageTokens, frenchTokens)

\* C19: detectLanguage returns English, Spanish or French and never Unknown;
\* a text with no token in any of the three word lists, the empty text
\* included, is labelled English.
C19_LanguageNeverUnknown ==
    Analyzed =>
        /\ analysis.language \in {"English", "Spanish", "French"}
        /\ (/\ Hits(AllLanguageTokens, englishTokens) = 0
            /\ Hits(AllLanguageTokens, spanishTokens) = 0
            /\ Hits(AllLanguageTokens, frenchTokens) = 0) => analysis.language = "English"

\* C19 witness: a text of words that are in none of the lists, labelled English.
C19_Witness ==
    /\ Analyzed
    /\ Len(AllLanguageTokens) > 1
    /\ Hits(AllLanguageTokens, englishTokens \cup spanishTokens \cup frenchTokens) = 0
    /\ analysis.language = "English"

(***************************************************************************)
(* Properties of the conversion (SpecFile)                                 *)
(***************************************************************************)
\* String.prototype.includes
Contains(t, part) ==
    \E k \in 0..(Len(t) - Len(part)) : SubSeq(t, k + 1, k + Len(part)) = part

Converted == conversion # NoConversion

\* The bytes of the file as text, untransformed.
RawText(f) == [i \in DOMAIN f.bytes |-> fromCharCode(f.bytes[i])]

LowerName(f) == toLowerCaseString(f.name)
LowerType(f) == toLowerCaseString(f.type)

\* The text-like category as the specification lists it.
TextLike(f) ==
    \/ startsWith(LowerType(f), "text/")
    \/ \E ext \in {".txt", ".md", ".csv", ".log", ".cfg", ".ini", ".svg"} :
           endsWith(LowerName(f), ext)

\* C3: a text-like file (type text/*, or name ending .txt, .md, .csv, .log, .cfg,
\* .ini or .svg) is returned as raw text with no transformation, whatever later
\* category its type or name also matches.
C3_TextLikeFirst ==
    (Converted /\ TextLike(file) /\ file.readable) =>
        conversion.status = "resolved" /\ conversion.text = RawText(file)

\* The files the code hands to the JSON strategy.
JsonDispatched(f) ==
    /\ LowerType(f) = "application/json" \/ endsWith(LowerName(f), ".json")
    /\ ~startsWith(LowerType(f), "text/")
    /\ \A ext \in {".txt", ".md", ".csv"} : ~endsWith(LowerName(f), ext)

\* C4: a file dispatched to the JSON strategy is returned re-serialized with
\* 2-space indentation when its content parses (and the result parses back to
\* the same value), verbatim when it does not; the conversion fails only when
\* the file cannot be read, never for a parse failure.
C4_JsonFallsBack ==
    (Converted /\ JsonDispatched(file)) =>
        LET raw == RawText(file)
            parsed == JSONparse(raw)
        IN  /\ conversion.status = "rejected" <=> ~file.readable
            /\ (file.readable /\ parsed.ok) =>
                   /\ conversion.text = JSONstringify(parsed.value, 0)
                   /\ JSONparse(conversion.text) = [parsed EXCEPT !.next = Len(conversion.text) + 1]
            /\ (file.readable /\ ~parsed.ok) => conversion.text = raw
            /\ (file.readable /\ raw = Chars("[1,1]")) =>
                   conversion.text = <<"[", "\n", " ", " ", "1", ",", "\n", " ", " ", "1", "\n", "]">>
            /\ (file.readable /\ raw = Chars("[[1]]")) =>
                   conversion.text = Chars("[") \o <<"\n">> \o Chars("  [") \o <<"\n">>
                       \o Chars("    1") \o <<"\n">> \o Chars("  ]") \o <<"\n">> \o Chars("]")

\* C4 witness: malformed JSON returned verbatim.
C4_Witness ==
    /\ Converted
    /\ JsonDispatched(file)
    /\ file.readable
    /\ RawText(file) = Chars("[1,]")
    /\ ~JSONparse(RawText(file)).ok
    /\ conversion = Resolved("json", Chars("[1,]"))

\* The offsets of the zero bytes of a file.
ZeroOffsetsOf(f) == {i - 1 : i \in {j \in DOMAIN f.bytes : f.bytes[j] = 0}}

\* The file reached the last strategy.
ReachedFallback == Converted /\ conversion.strategy \in {"binary", "fallback"}

\* C5: for a file that reaches the fallback strategy (and whose bytes can be
\* read), the binary report is produced if and only if some byte at an index
\* below min(1000, length) is zero; with no such byte the file is read as text.
C5_ZeroByteWindow ==
    (ReachedFallback /\ file.readable) =>
        LET zeroInWindow == \E z \in ZeroOffsetsOf(file) : z < 1000 /\ z < Len(file.bytes)
        IN  /\ conversion.strategy = "binary" <=> zeroInWindow
            /\ ~zeroInWindow => conversion = Resolved("fallback", RawText(file))
            /\ zeroInWindow => conversion.status = "resolved"

\* C5 witness: a file whose only zero bytes are at index 1000 or later, read as
\* text.
C5_Witness ==
    /\ ReachedFallback
    /\ file.readable
    /\ ZeroOffsetsOf(file) # {}
    /\ \A z \in ZeroOffsetsOf(file) : z >= 1000
    /\ conversion = Resolved("fallback", RawText(file))

\* The strategies that delegate to a collaborator: mammoth, XLSX, pdf.js,
\* Tesseract, JSZip.
DelegatedStrategies == {"docx", "excel", "pdf", "image", "archive"}

\* C11: when the collaborator of the chosen strategy throws (document,
\* spreadsheet or PDF reader, OCR engine, archive reader), convertFileToText
\* fails with an extraction-failed error and returns no text.
C11_CollaboratorFailureRejects ==
    (/\ Converted
     /\ conversion.strategy \in DelegatedStrategies
     /\ file.readable
     /\ file.decoded = "throws")
    => /\ conversion.status = "rejected"
       /\ \E kind \in {"DOCX", "Excel", "PDF", "image", "archive"} :
              Contains(conversion.message, Chars(kind))

(***************************************************************************)
(* Properties of the component (Spec)                                      *)
(***************************************************************************)
\* The step ends the processFiles invocation in flight.
BatchEnds == batch # NoBatch /\ batch' = NoBatch

\* The step settles the extraction of the file the batch is at.
BatchSteps == batch # NoBatch /\ batch' # batch

\* The indices (from 1) of the files of the batch whose extraction resolves.
ResolvingFiles(files) ==
    {k \in DOMAIN files : extractions[files[k]].status = "resolved"}

\* C1: whatever files of a batch fail, every file of the batch is extracted, and
\* when the batch ends the converted list has gained exactly one record per
\* successfully extracted file, in input order, and none for a failed file.
C1_BatchAppendsSuccesses ==
    [][BatchEnds =>
        LET files == batch.files
            resolving == ResolvingFiles(files)
            before == Len(convertedFiles)
            nth(r) == CHOOSE k \in resolving : Cardinality({j \in resolving : j < k}) = r - 1
        IN  /\ \A k \in DOMAIN files : \E e \in DOMAIN log' : log'[e] = <<"extract", k - 1>>
            /\ Len(convertedFiles') = before + Cardinality(resolving)
            /\ SubSeq(convertedFiles', 1, before) = convertedFiles
            /\ \A r \in 1..Cardinality(resolving) :
                   LET record == convertedFiles'[before + r]
                   IN  /\ record.name = files[nth(r)].name
                       /\ record.textContent = extractions[files[nth(r)]].text
                       /\ record.id[2] = nth(r) - 1
                       /\ record.aiAnalysis = Undefined
    ]_vars

\* C1 witness: a batch has ended in which a file failed and a later file was
\* extracted and recorded.
C1_Witness ==
    /\ batch = NoBatch
    /\ log # <<>>
    /\ log[Len(log)] = <<"progress", 0, 1>>
    /\ \E i, j \in 0..(MaxFiles - 1) :
           /\ i < j
           /\ \E e \in DOMAIN log : log[e] = <<"settled", i, FALSE>>
           /\ \E e \in DOMAIN log : log[e] = <<"settled", j, TRUE>>
           /\ convertedFiles # <<>>
           /\ convertedFiles[Len(convertedFiles)].id[2] = j

\* C2: a file whose extraction throws sets the error to a message that contains
\* the file's name, and the failure does not escape processFiles: the batch goes
\* on to its next file or ends with isConverting reset to false, and
\* isConverting is true exactly while a batch is in flight.
C2_FailureNamedAndCaught ==
    [][/\ isConverting' <=> batch' # NoBatch
       /\ BatchSteps =>
            LET f == batch.files[batch.i + 1]
                failed == extractions[f].status = "rejected"
            IN  /\ failed => error' # Null /\ Contains(error'.message, Chars(f.name))
                /\ IF batch.i + 1 < Len(batch.files)
                   THEN batch' # NoBatch /\ batch'.i = batch.i + 1
                   ELSE batch' = NoBatch /\ ~isConverting'
    ]_vars

\* C2 witness: a batch whose last file failed has ended; the error names that
\* file and isConverting is false.
C2_Witness ==
    /\ batch = NoBatch
    /\ ~isConverting
    /\ Len(log) >= 2
    /\ log[Len(log)] = <<"progress", 0, 1>>
    /\ log[Len(log) - 1] = <<"settled", 1, FALSE>>
    /\ error # Null
    /\ Contains(error.message, Chars("data.json"))

SameRecords == Len(convertedFiles') = Len(convertedFiles)

\* the textContent of a record stays what its extraction gave
TextContentKept ==
    SameRecords =>
        \A k \in DOMAIN convertedFiles :
            convertedFiles'[k].textContent = convertedFiles[k].textContent

\* an analysis starts only for a record that is not analyzing and has no analysis
AnalysisStartsFresh ==
    Len(pending') > Len(pending) =>
        \E k \in DOMAIN convertedFiles :
            /\ convertedFiles[k].id = pending'[Len(pending')].id
            /\ convertedFiles[k].textContent = pending'[Len(pending')].textContent
            /\ convertedFiles[k].isAnalyzing # "true"
            /\ convertedFiles[k].aiAnalysis = Undefined

\* an analysis, once set, stays
AnalysisKept ==
    SameRecords =>
        \A k \in DOMAIN convertedFiles :
            convertedFiles[k].aiAnalysis # Undefined
                => convertedFiles'[k].aiAnalysis = convertedFiles[k].aiAnalysis

\* C13: each record is extracted once and analyzed at most once: its
\* textContent never changes, no analysis starts for a record that is analyzing
\* or has an aiAnalysis, and an aiAnalysis that is set never changes.
C13_ExtractedOnceAnalyzedOnce ==
    [][TextContentKept /\ AnalysisStartsFresh /\ AnalysisKept]_vars

\* a step of clearFiles
ClearStep == log' = Append(log, <<"clear">>)

\* the list was cleared since the batch in flight was submitted
ClearedSinceSubmit == \E e \in DOMAIN log : log[e] = <<"clear">>

\* C14: clearFiles leaves the list empty, the error null and the selection
\* null, and no file submitted before a clear is put in the list after it, a
\* batch or an analysis in flight at the clear included.
C14_ClearDiscardsEverything ==
    [][/\ ClearStep => /\ convertedFiles' = <<>>
                       /\ error' = Null
                       /\ selectedFile' = Null
       /\ ClearedSinceSubmit => Len(convertedFiles') <= Len(convertedFiles)
    ]_vars

\* In the events es of a batch of n files, file i has its progress update of
\* (i + 0.5) / n, then the start of its extraction, then the end of it, then
\* its progress update of (i + 1) / n.
FileEventsOrdered(es, i, n) ==
    \E a, b, c, d \in DOMAIN es :
        /\ a < b /\ b < c /\ c < d
        /\ es[a] = <<"progress", (2 * i + 1) * 100, 2 * n>>
        /\ es[b] = <<"extract", i>>
        /\ es[c] \in {<<"settled", i, TRUE>>, <<"settled", i, FALSE>>}
        /\ es[d] = <<"progress", (i + 1) * 100, n>>

\* In the events es, the extraction of file i + 1 starts after that of file i
\* has ended.
OneAtATime(es, i) ==
    \A b, c \in DOMAIN es :
        (/\ es[b] = <<"extract", i + 1>>
         /\ es[c] \in {<<"settled", i, TRUE>>, <<"settled", i, FALSE>>}) => c < b

\* C18: in a batch of n files the progress is set to (i + 0.5) / n before the
\* extraction of file i starts and to (i + 1) / n after it ends, for every
\* file i, and the extraction of file i + 1 starts after that of file i ended.
C18_BatchEventsOrdered ==
    [][BatchEnds =>
        LET n == Len(batch.files)
        IN  \A i \in 0..(n - 1) : FileEventsOrdered(log', i, n) /\ OneAtATime(log', i)
    ]_vars

\* In the events es of a batch of n files, file i has its progress update of
\* (i + 0.5) / n, then the start of its extraction, then the end of it.
FileEventsBegin(es, i, n) ==
    \E a, b, c \in DOMAIN es :
        /\ a < b /\ b < c
        /\ es[a] = <<"progress", (2 * i + 1) * 100, 2 * n>>
        /\ es[b] = <<"extract", i>>
        /\ es[c] \in {<<"settled", i, TRUE>>, <<"settled", i, FALSE>>}

\* C18, restated: as C18 for the files whose extraction succeeds; for a file
\* whose extraction fails the progress is set to (i + 0.5) / n before the
\* extraction starts and is not set to (i + 1) / n after it ends.
C18_BatchEventsOrderedOnSuccess ==
    [][BatchEnds =>
        LET n == Len(batch.files)
            failed(i) == \E c \in DOMAIN log' : log'[c] = <<"settled", i, FALSE>>
        IN  \A i \in 0..(n - 1) :
                /\ FileEventsBegin(log', i, n)
                /\ OneAtATime(log', i)
                /\ IF failed(i)
                   THEN \A d \in DOMAIN log' : log'[d] # <<"progress", (i + 1) * 100, n>>
                   ELSE FileEventsOrdered(log', i, n)
    ]_vars

\* C18 witness: a batch of two files has ended; the first extraction failed
\* and the second succeeded, with its progress update of 2 / 2.
C18_Witness ==
    /\ batch = NoBatch
    /\ \E c, d \in DOMAIN log :
           /\ c < d
           /\ log[c] = <<"settled", 0, FALSE>>
           /\ log[d] = <<"progress", 200, 2>>
    /\ log[Len(log)] = <<"progress", 0, 1>>

\* The step starts a processFiles invocation that has a file to extract.
BatchStarts == batch = NoBatch /\ batch' # NoBatch

\* C20: a running batch does not change the converted list; at its end its
\* successful records are appended in one update after the records already
\* present, which keep their content and order; isConverting is true from the
\* start of the batch to its end, and false with the progress at 0 after it.
C20_BatchAppendsOnceAtEnd ==
    [][/\ (BatchStarts \/ (BatchSteps /\ ~BatchEnds)) =>
            /\ convertedFiles' = convertedFiles
            /\ isConverting'
       /\ BatchEnds =>
            LET before == Len(convertedFiles)
                succeeded == {e \in DOMAIN log' :
                                 \E i \in 0..(Len(batch.files) - 1) :
                                     log'[e] = <<"settled", i, TRUE>>}
            IN  /\ isConverting
                /\ Len(convertedFiles') = before + Cardinality(succeeded)
                /\ SubSeq(convertedFiles', 1, before) = convertedFiles
                /\ \A k \in (before + 1)..Len(convertedFiles') :
                       \E i \in DOMAIN batch.files :
                           /\ convertedFiles'[k].name = batch.files[i].name
                           /\ convertedFiles'[k].isFromFolder = batch.isFromFolder
                /\ ~isConverting'
                /\ conversionProgress' = Progress(0, 1)
       /\ (batch = NoBatch /\ batch' = NoBatch) => (~isConverting /\ ~isConverting')
    ]_vars

\* C20 witness: a batch has ended that appended a record after the record of an
\* earlier batch, and the component is idle with the progress at 0.
C20_Witness ==
    /\ batch = NoBatch
    /\ ~isConverting
    /\ conversionProgress = Progress(0, 1)
    /\ Len(convertedFiles) = 2
    /\ convertedFiles[1].id[2] = 0
    /\ convertedFiles[2].id[2] = 0
    /\ convertedFiles[1].name # convertedFiles[2].name
    /\ \E e \in DOMAIN log : log[e] = <<"settled", 0, TRUE>>

(***************************************************************************)
(* Properties of the archive (SpecZip)                                     *)
(***************************************************************************)
Bundled == archive # NoArchive

\* the name up to its last dot; the whole name when it has no dot
NameWithoutExtension(name) ==
    LET parts == splitEach(Chars(name), {"."})
    IN  IF Len(parts) = 1 THEN Chars(name)
        ELSE join(SubSeq(parts, 1, Len(parts) - 1), <<".">>)

\* the relative path up to its last slash, with the slash; empty at the root
DirectoryOf(r) ==
    LET path == Chars(r.relativePath)
        slashes == {i \in DOMAIN path : path[i] = "/"}
    IN  IF ~r.isFromFolder \/ slashes = {} THEN <<>>
        ELSE SubSeq(path, 1, CHOOSE i \in slashes : \A j \in slashes : j <= i)

TextEntryOf(r) == DirectoryOf(r) \o NameWithoutExtension(r.name) \o Chars(".txt")

AnalysisEntryOf(r) == DirectoryOf(r) \o NameWithoutExtension(r.name) \o Chars("_analysis.txt")

\* C15: the archive holds, for every record of the list, a text entry of its
\* own with the record's textContent: <name without extension>.txt at the root
\* for an individual file, under the directory of its relative path for a
\* file of a folder.
C15_BundleHoldsEveryRecord ==
    Bundled =>
        /\ \A k \in DOMAIN convertedFiles :
               /\ TextEntryOf(convertedFiles[k]) \in DOMAIN archive
               /\ archive[TextEntryOf(convertedFiles[k])] = convertedFiles[k].textContent
        /\ \A j, k \in DOMAIN convertedFiles :
               j # k => TextEntryOf(convertedFiles[j]) # TextEntryOf(convertedFiles[k])

\* C16: the archive holds the _analysis.txt entry of a record, next to its
\* text entry, exactly when the record has an aiAnalysis, and the entry
\* carries the record's summary, its keywords joined by commas, its sentiment
\* and its language.
C16_AnalysisCompanion ==
    Bundled =>
        \A k \in DOMAIN convertedFiles :
            LET r == convertedFiles[k]
                a == r.aiAnalysis
            IN  /\ AnalysisEntryOf(r) \in DOMAIN archive <=> a # Undefined
                /\ a # Undefined =>
                       LET content == archive[AnalysisEntryOf(r)]
                       IN  /\ Contains(content, Chars("Summary:") \o <<"\n">> \o a.summary)
                           /\ Contains(content, Chars("Keywords: ")
                                                    \o join(a.keywords, Chars(", ")))
                           /\ Contains(content, Chars("Sentiment: ") \o Chars(a.sentiment))
                           /\ Contains(content, Chars("Language: ") \o Chars(a.language))

(***************************************************************************)
(* Properties of the size rendering (SpecSize)                             *)
(***************************************************************************)
Formatted == sizeText # NoSizeText

\* the text ends with a space and the unit
LabelledWith(t, unit) ==
    /\ Len(t) > Len(unit) + 1
    /\ SubSeq(t, Len(t) - Len(unit), Len(t)) = <<" ">> \o Chars(unit)

\* the text begins with the decimal digits of n, and the number ends there
BeginsWithNumber(t, n) ==
    LET ds == toString(n)
    IN  /\ Len(t) > Len(ds)
        /\ SubSeq(t, 1, Len(ds)) = ds
        /\ t[Len(ds) + 1] \in {".", " "}

\* C17: 0 is rendered "0 Bytes"; a positive count is scaled by the power of
\* 1024 whose exponent is floor(log1024(count)), and labelled Bytes, KB, MB or
\* GB for the exponents 0, 1, 2 and 3.
C17_SizeScaledAndLabelled ==
    Formatted =>
        IF byteCount = <<>> THEN sizeText = Chars("0 Bytes")
        ELSE LET exponent == Len(byteCount) - 1
             IN  /\ \E unit \in {"Bytes", "KB", "MB", "GB"} : LabelledWith(sizeText, unit)
                 /\ exponent = 0 => LabelledWith(sizeText, "Bytes")
                 /\ exponent = 1 => LabelledWith(sizeText, "KB")
                 /\ exponent = 2 => LabelledWith(sizeText, "MB")
                 /\ exponent = 3 => LabelledWith(sizeText, "GB")
                 /\ \/ BeginsWithNumber(sizeText, byteCount[1])
                    \/ BeginsWithNumber(sizeText, byteCount[1] + 1)

(***************************************************************************)
(* Properties of the analysis handler (SpecAnalyze)                        *)
(***************************************************************************)
\* The step completes the oldest analysis in flight.
AnalysisCompletes == pending # <<>> /\ pending' = Tail(pending)

\* The completing step is a success: the error is untouched and every record
\* with the id of the analyzed file has an analysis afterwards.
AnalysisSucceeds ==
    /\ error' = error
    /\ DOMAIN convertedFiles' = DOMAIN convertedFiles
    /\ \A k \in DOMAIN convertedFiles :
           convertedFiles[k].id = Head(pending).id => convertedFiles'[k].aiAnalysis # Undefined

\* The positions of the list whose record the step changes.
ChangedRecords ==
    {k \in DOMAIN convertedFiles :
        k \in DOMAIN convertedFiles' /\ convertedFiles'[k] # convertedFiles[k]}

SameLengthAndOrder ==
    /\ Len(convertedFiles') = Len(convertedFiles)
    /\ \A k \in DOMAIN convertedFiles :
           /\ convertedFiles'[k].id = convertedFiles[k].id
           /\ convertedFiles'[k].name = convertedFiles[k].name

\* C21: the completion of an analysis, success or failure, changes only the
\* record whose id is the id of the analyzed file: the list keeps its length
\* and order (so a record removed while its analysis was in flight is not put
\* back), at most one record changes, it has the id of the analyzed file, and
\* every other record is unchanged.
C21_CompletionChangesOneRecord ==
    [][AnalysisCompletes =>
        /\ SameLengthAndOrder
        /\ \A k \in ChangedRecords : convertedFiles[k].id = Head(pending).id
        /\ Cardinality(ChangedRecords) <= 1
    ]_vars

====
